---- MODULE Spec2Model ----
(***************************************************************************)
(* The frameless-window interaction engine of qwindowkit's Qt window       *)
(* context (src/core/contexts/qtwindowcontext.cpp), Windows build:         *)
(*   - the geometry functions calculateCursorShape / calculateWindowEdges, *)
(*   - the pointer state machine QtWindowEventFilter::sharedEventFilter,   *)
(*   - the process-wide hook table g_qtContextHash with install /          *)
(*     uninstall / SystemMenuHookWindowProc,                               *)
(*   - the system menu controller showSystemMenu_sys.                      *)
(* Everything the code reads from the toolkit or the OS (window size and   *)
(* visibility, window flags and state, key state, the menu handle) is an   *)
(* input of the step that reads it; every call the code makes on the       *)
(* delegate or the OS is recorded in `obs.calls`.                          *)
(***************************************************************************)
EXTENDS Integers, Sequences, FiniteSets, TLC

VARIABLES
    g_qtContextHash,      \* HWND -> [originalWindowProc, context]
    wndProc,              \* the OS side: GWLP_WNDPROC of every window handle
    alive,                \* which QtWindowContext objects exist
    m_windowId,           \* QtWindowContext::m_windowId
    m_windowStatus,       \* QtWindowEventFilter::m_windowStatus
    m_cursorShapeChanged, \* QtWindowEventFilter::m_cursorShapeChanged
    hilite,               \* HWND -> whether SC_RESTORE is highlighted in its menu
    popup,                \* the calls suspended in TrackPopupMenu (innermost last)
    obs,                  \* what the last step was given, returned and called
    geom,                 \* the geometry functions' inputs and results
    click                 \* the right click in progress on the context's window

vars == <<g_qtContextHash, wndProc, alive, m_windowId, m_windowStatus,
          m_cursorShapeChanged, hilite, popup, obs, geom, click>>

----------------------------------------------------------------------------
(* Bounds of the model. *)

MaxCtx == 2       \* QtWindowContext objects
MaxHwnd == 2      \* native window handles
MaxSide == 17     \* largest side of the small windows of SpecGeom

(* Program constants. *)

kDefaultResizeBorderThickness == 8

----------------------------------------------------------------------------
(* Geometry: calculateCursorShape and calculateWindowEdges. *)

Visibilities == {"Windowed", "Maximized", "FullScreen", "Minimized"}

\* A QWindow as the two functions read it; present = FALSE is the null pointer.
NoWindow == [present |-> FALSE, visibility |-> "Windowed", width |-> 0, height |-> 0]

QWindow(vis, w, h) == [present |-> TRUE, visibility |-> vis, width |-> w, height |-> h]

\* Variant: the bottom-right corner takes the cursor of the other diagonal.
calculateCursorShape_MirroredCorner(window, pos) ==
    IF ~window.present THEN "ArrowCursor"
    ELSE IF window.visibility # "Windowed" THEN "ArrowCursor"
    ELSE LET x == pos[1]
             y == pos[2]
             w == window.width
             h == window.height
             B == kDefaultResizeBorderThickness
         IN  IF x < B /\ y < B
                 THEN "SizeFDiagCursor"
             ELSE IF (x >= w - B /\ y < B) \/ (x < B /\ y >= h - B)
                        \/ (x >= w - B /\ y >= h - B)
                 THEN "SizeBDiagCursor"
             ELSE IF x < B \/ x >= w - B
                 THEN "SizeHorCursor"
             ELSE IF y < B \/ y >= h - B
                 THEN "SizeVerCursor"
             ELSE "ArrowCursor"

calculateCursorShape(window, pos) ==
    IF ~window.present THEN "ArrowCursor"
    ELSE IF window.visibility # "Windowed" THEN "ArrowCursor"
    ELSE LET x == pos[1]
             y == pos[2]
             w == window.width
             h == window.height
             B == kDefaultResizeBorderThickness
         IN  IF (x < B /\ y < B) \/ (x >= w - B /\ y >= h - B)
                 THEN "SizeFDiagCursor"
             ELSE IF (x >= w - B /\ y < B) \/ (x < B /\ y >= h - B)
                 THEN "SizeBDiagCursor"
             ELSE IF x < B \/ x >= w - B
                 THEN "SizeHorCursor"
             ELSE IF y < B \/ y >= h - B
                 THEN "SizeVerCursor"
             ELSE "ArrowCursor"

\* Variant: the right and bottom borders are one pixel thinner.
calculateWindowEdges_ThinFarBorder(window, pos) ==
    IF ~window.present THEN {}
    ELSE IF window.visibility # "Windowed" THEN {}
    ELSE LET x == pos[1]
             y == pos[2]
             B == kDefaultResizeBorderThickness
         IN  (IF x < B THEN {"LeftEdge"} ELSE {})
             \cup (IF x > window.width - B THEN {"RightEdge"} ELSE {})
             \cup (IF y < B THEN {"TopEdge"} ELSE {})
             \cup (IF y > window.height - B THEN {"BottomEdge"} ELSE {})

calculateWindowEdges(window, pos) ==
    IF ~window.present THEN {}
    ELSE IF window.visibility # "Windowed" THEN {}
    ELSE LET x == pos[1]
             y == pos[2]
             B == kDefaultResizeBorderThickness
         IN  (IF x < B THEN {"LeftEdge"} ELSE {})
             \cup (IF x >= window.width - B THEN {"RightEdge"} ELSE {})
             \cup (IF y < B THEN {"TopEdge"} ELSE {})
             \cup (IF y >= window.height - B THEN {"BottomEdge"} ELSE {})

\* The window sizes of SpecGeom: small ones, where opposite borders
\* meet or overlap, and the 640x480 window.
SmallSides == {1, 12} \cup (2 * kDefaultResizeBorderThickness .. MaxSide)

GeomSizes == (SmallSides \X SmallSides) \cup {<<640, 480>>}

\* The coordinates tried along a side of length n: everything up to two past
\* each border, the middle, and one step outside the window on either side.
Coords(n) ==
    {p \in -1 .. n : \/ p <= kDefaultResizeBorderThickness + 1
                     \/ p >= n - kDefaultResizeBorderThickness - 2
                     \/ p = n \div 2}

GeomIdle ==
    [window |-> NoWindow, pos |-> <<0, 0>>, edges |-> {}, shape |-> "ArrowCursor",
     done |-> {}]

----------------------------------------------------------------------------
(* Identities. *)

Ctx == 1 .. MaxCtx

Hwnd == 1 .. MaxHwnd

\* WId 0: the context has no native window.
NoWinId == 0

\* The context whose QtWindowEventFilter the pointer events of the model go to.
m_context == 1

NullProc == "nullptr"

QtWindowProc == "QtWindowProc"

HookProc == "SystemMenuHookWindowProc"

NoRecord == [originalWindowProc |-> NullProc, context |-> 0]

\* The Windows constants the code compares against.
SC_SIZE == 61440
SC_MOVE == 61456
SC_MINIMIZE == 61472
SC_MAXIMIZE == 61488
SC_CLOSE == 61536
SC_KEYMENU == 61696
SC_RESTORE == 61728
\* UINT_MAX (0xFFFFFFFF) as the 32-bit pattern read as a signed integer.
UINT_MAX == -1
HTCAPTION == 2
VK_MENU == 18
VK_SPACE == 32

\* Values of the same kinds that the code does not name.
HTCLIENT == 1
VK_A == 65

----------------------------------------------------------------------------
(* System Menu Controller: showSystemMenu_sys, up to TrackPopupMenu. *)

EnableMenuItem(item, enabled) ==
    [fn |-> "EnableMenuItem", item |-> item,
     flag |-> IF enabled THEN "MFS_ENABLED" ELSE "MFS_DISABLED"]

HiliteMenuItem(item, on) ==
    [fn |-> "HiliteMenuItem", item |-> item,
     flag |-> IF on THEN "MFS_HILITE" ELSE "MFS_UNHILITE"]

SetMenuDefaultItem(item) == [fn |-> "SetMenuDefaultItem", item |-> item]

TrackPopupMenu(pos) == [fn |-> "TrackPopupMenu", flags |-> "TPM_RETURNCMD", pos |-> pos]

PostMessageW(hWnd, result) ==
    [fn |-> "PostMessageW", hWnd |-> hWnd, uMsg |-> "WM_SYSCOMMAND", wParam |-> result]

\* What showSystemMenu_sys reads from the OS: GetSystemMenu, the window style,
\* IsZoomed.  (The text direction only picks the popup's alignment flag.)
MenuReads ==
    [hMenu : BOOLEAN, max : BOOLEAN, allowMaximize : BOOLEAN, allowMinimize : BOOLEAN]

defaultItemId(max) ==
    LET chosen == IF max THEN SC_RESTORE ELSE SC_MAXIMIZE
    IN  IF chosen = UINT_MAX THEN SC_CLOSE ELSE chosen

\* Variant: Restore is enabled for every maximized, maximizable window, fixed
\* size or not.
showSystemMenu_sys_RestoreWhenFixed(hWnd, pos, selectFirstEntry, fixedSize, rd) ==
    IF ~rd.hMenu THEN <<>>
    ELSE << EnableMenuItem(SC_CLOSE, TRUE),
            EnableMenuItem(SC_MAXIMIZE, ~(rd.max \/ fixedSize \/ ~rd.allowMaximize)),
            EnableMenuItem(SC_RESTORE, rd.max /\ rd.allowMaximize),
            HiliteMenuItem(SC_RESTORE, selectFirstEntry),
            EnableMenuItem(SC_MINIMIZE, rd.allowMinimize),
            EnableMenuItem(SC_SIZE, ~(rd.max \/ fixedSize)),
            EnableMenuItem(SC_MOVE, ~rd.max),
            SetMenuDefaultItem(defaultItemId(rd.max)),
            TrackPopupMenu(pos) >>

\* The calls of showSystemMenu_sys from its first line to TrackPopupMenu; empty
\* when there is no system menu handle (the function returns true at once).
showSystemMenu_sys(hWnd, pos, selectFirstEntry, fixedSize, rd) ==
    IF ~rd.hMenu THEN <<>>
    ELSE << EnableMenuItem(SC_CLOSE, TRUE),
            EnableMenuItem(SC_MAXIMIZE, ~(rd.max \/ fixedSize \/ ~rd.allowMaximize)),
            EnableMenuItem(SC_RESTORE, rd.max /\ ~fixedSize /\ rd.allowMaximize),
            HiliteMenuItem(SC_RESTORE, selectFirstEntry),
            EnableMenuItem(SC_MINIMIZE, rd.allowMinimize),
            EnableMenuItem(SC_SIZE, ~(rd.max \/ fixedSize)),
            EnableMenuItem(SC_MOVE, ~rd.max),
            SetMenuDefaultItem(defaultItemId(rd.max)),
            TrackPopupMenu(pos) >>

\* Variant: a dismissed popup returns before the highlight is cleared.
showSystemMenu_sys_after_EarlyReturn(hWnd, result) ==
    IF result = 0 THEN <<>>
    ELSE << HiliteMenuItem(SC_RESTORE, FALSE), PostMessageW(hWnd, result) >>

\* The calls of showSystemMenu_sys after TrackPopupMenu returned `result`.
showSystemMenu_sys_after(hWnd, result) ==
    << HiliteMenuItem(SC_RESTORE, FALSE) >>
    \o (IF result = 0 THEN <<>> ELSE << PostMessageW(hWnd, result) >>)

\* Its return value.
showSystemMenu_sys_result(result) == result # 0

\* The state a sequence of menu calls leaves the menu in.
RECURSIVE MenuAfter(_, _)
MenuAfter(menu, calls) ==
    IF calls = <<>> THEN menu
    ELSE LET c == Head(calls)
             next ==
                 IF c.fn = "EnableMenuItem"
                     THEN [menu EXCEPT !.enabled =
                              IF c.flag = "MFS_ENABLED" THEN @ \cup {c.item} ELSE @ \ {c.item}]
                 ELSE IF c.fn = "HiliteMenuItem"
                     THEN [menu EXCEPT !.hilited =
                              IF c.flag = "MFS_HILITE" THEN @ \cup {c.item} ELSE @ \ {c.item}]
                 ELSE IF c.fn = "SetMenuDefaultItem"
                     THEN [menu EXCEPT !.default = c.item]
                 ELSE menu
         IN  MenuAfter(next, Tail(calls))

----------------------------------------------------------------------------
(* Native Hook Table: g_qtContextHash, install, uninstall.  Both operators   *)
(* take and return the pair (table, window procedures).                      *)

Installed(hash, procs) == [hash |-> hash, procs |-> procs]

\* Variant: no test for a record already present; the last registration wins.
installSystemMenuHook_LastWins(hash, procs, hwnd, ctx) ==
    LET data == [originalWindowProc |-> procs[hwnd], context |-> ctx]
    IN  IF data.originalWindowProc # NullProc
            THEN Installed([h \in DOMAIN hash \cup {hwnd} |-> IF h = hwnd THEN data ELSE hash[h]],
                           [procs EXCEPT ![hwnd] = HookProc])
            ELSE Installed(hash, procs)

\* Variant: the record is inserted whether or not a procedure was captured.
installSystemMenuHook_AlwaysRecords(hash, procs, hwnd, ctx) ==
    IF hwnd \in DOMAIN hash THEN Installed(hash, procs)
    ELSE LET data == [originalWindowProc |-> procs[hwnd], context |-> ctx]
         IN  Installed(hash @@ (hwnd :> data),
                       IF data.originalWindowProc # NullProc
                           THEN [procs EXCEPT ![hwnd] = HookProc]
                           ELSE procs)

installSystemMenuHook(hash, procs, hwnd, ctx) ==
    IF hwnd \in DOMAIN hash THEN Installed(hash, procs)
    ELSE LET data == [originalWindowProc |-> procs[hwnd], context |-> ctx]
         IN  IF data.originalWindowProc # NullProc
                 THEN Installed(hash @@ (hwnd :> data), [procs EXCEPT ![hwnd] = HookProc])
                 ELSE Installed(hash, procs)

\* Variant: the record is removed, the window procedure is left in place.
uninstallSystemMenuHook_KeepsProc(hash, procs, hwnd) ==
    IF hwnd \notin DOMAIN hash THEN Installed(hash, procs)
    ELSE Installed([h \in DOMAIN hash \ {hwnd} |-> hash[h]], procs)

uninstallSystemMenuHook(hash, procs, hwnd) ==
    IF hwnd \notin DOMAIN hash THEN Installed(hash, procs)
    ELSE LET data == hash[hwnd]
         IN  Installed([h \in DOMAIN hash \ {hwnd} |-> hash[h]],
                       IF data.originalWindowProc # NullProc
                           THEN [procs EXCEPT ![hwnd] = data.originalWindowProc]
                           ELSE procs)

\* QtWindowContext::winIdChanged: the frameless flag, then the hook moves from
\* the old identity to the new one.
winIdChanged_flags(windowHandle) ==
    << [fn |-> "setWindowFlags",
        FramelessWindowHint |-> IF windowHandle THEN "set" ELSE "cleared"] >>

winIdChanged(hash, procs, ctx, winId, oldWinId) ==
    LET afterOld == IF oldWinId # NoWinId
                        THEN uninstallSystemMenuHook(hash, procs, oldWinId)
                        ELSE Installed(hash, procs)
    IN  IF winId # NoWinId
            THEN installSystemMenuHook(afterOld.hash, afterOld.procs, winId, ctx)
            ELSE afterOld

\* Variant: the destructor leaves the hook of its window in place.
destroyContext_NoUninstall(hash, procs, windowId) == Installed(hash, procs)

\* QtWindowContext::~QtWindowContext.
destroyContext(hash, procs, windowId) ==
    IF windowId # NoWinId
        THEN uninstallSystemMenuHook(hash, procs, windowId)
        ELSE Installed(hash, procs)

----------------------------------------------------------------------------
(* SystemMenuHookWindowProc, up to the call that ends it.                    *)

\* The native messages of the model: the four kinds the hook looks at, with
\* parameters on both sides of every test, and others it only forwards.
MessagePos == <<20, 3>>

Messages ==
    {[uMsg |-> u, wParam |-> 0, lParam |-> MessagePos] :
        u \in {"WM_RBUTTONUP", "WM_RBUTTONDOWN", "WM_LBUTTONDOWN"}}
    \cup {[uMsg |-> "WM_NCRBUTTONUP", wParam |-> ht, lParam |-> MessagePos] :
             ht \in {HTCAPTION, HTCLIENT}}
    \cup {[uMsg |-> "WM_SYSCOMMAND", wParam |-> SC_KEYMENU + low, lParam |-> l] :
             low \in {0, 1}, l \in {VK_SPACE, 0}}
    \cup {[uMsg |-> "WM_SYSCOMMAND", wParam |-> SC_MAXIMIZE, lParam |-> VK_SPACE]}
    \cup {[uMsg |-> "WM_KEYDOWN", wParam |-> w, lParam |-> 0] : w \in {VK_MENU, VK_SPACE, VK_A}}
    \cup {[uMsg |-> "WM_SYSKEYDOWN", wParam |-> VK_SPACE, lParam |-> 0]}
    \cup {[uMsg |-> "WM_PAINT", wParam |-> 0, lParam |-> 0]}

\* Messages of the pointer and the keyboard: none reaches the window while a
\* popup menu tracks the input.
InputMessages == {m \in Messages : m.uMsg # "WM_PAINT"}

\* What the procedure reads besides its arguments and the table:
\* isInTitleBarDraggableArea, GetKeyState(VK_MENU) < 0, GetKeyState(VK_SPACE) < 0.
HookReads == [inTitleBar : BOOLEAN, altDown : BOOLEAN, spaceDown : BOOLEAN]

\* wParam & 0xFFF0 (wParam < 2^16).
MaskedCommand(wParam) == wParam - (wParam % 16)

\* Variant: WM_SYSCOMMAND's wParam is compared without masking its low bits.
HookDecision_Unmasked(msg, rd) ==
    LET no == [show |-> FALSE, keyboard |-> FALSE, pos |-> <<"none", <<0, 0>>>>]
    IN  CASE msg.uMsg = "WM_RBUTTONUP" ->
                 IF rd.inTitleBar
                     THEN [show |-> TRUE, keyboard |-> FALSE,
                           pos |-> <<"ClientToScreen", msg.lParam>>]
                     ELSE no
          [] msg.uMsg = "WM_NCRBUTTONUP" ->
                 IF msg.wParam = HTCAPTION
                     THEN [show |-> TRUE, keyboard |-> FALSE, pos |-> <<"lParam", msg.lParam>>]
                     ELSE no
          [] msg.uMsg = "WM_SYSCOMMAND" ->
                 IF msg.wParam = SC_KEYMENU /\ msg.lParam = VK_SPACE
                     THEN [show |-> TRUE, keyboard |-> TRUE,
                           pos |-> <<"GetWindowRect", <<0, 30>>>>]
                     ELSE no
          [] msg.uMsg \in {"WM_KEYDOWN", "WM_SYSKEYDOWN"} ->
                 LET altPressed == msg.wParam = VK_MENU \/ rd.altDown
                     spacePressed == msg.wParam = VK_SPACE \/ rd.spaceDown
                 IN  IF altPressed /\ spacePressed
                         THEN [show |-> TRUE, keyboard |-> TRUE,
                               pos |-> <<"GetWindowRect", <<0, 30>>>>]
                         ELSE no
          [] OTHER -> no

\* The switch over uMsg: shouldShowSystemMenu, broughtByKeyboard, nativeGlobalPos.
HookDecision(msg, rd) ==
    LET no == [show |-> FALSE, keyboard |-> FALSE, pos |-> <<"none", <<0, 0>>>>]
    IN  CASE msg.uMsg = "WM_RBUTTONUP" ->
                 IF rd.inTitleBar
                     THEN [show |-> TRUE, keyboard |-> FALSE,
                           pos |-> <<"ClientToScreen", msg.lParam>>]
                     ELSE no
          [] msg.uMsg = "WM_NCRBUTTONUP" ->
                 IF msg.wParam = HTCAPTION
                     THEN [show |-> TRUE, keyboard |-> FALSE, pos |-> <<"lParam", msg.lParam>>]
                     ELSE no
          [] msg.uMsg = "WM_SYSCOMMAND" ->
                 IF MaskedCommand(msg.wParam) = SC_KEYMENU /\ msg.lParam = VK_SPACE
                     THEN [show |-> TRUE, keyboard |-> TRUE,
                           pos |-> <<"GetWindowRect", <<0, 30>>>>]
                     ELSE no
          [] msg.uMsg \in {"WM_KEYDOWN", "WM_SYSKEYDOWN"} ->
                 LET altPressed == msg.wParam = VK_MENU \/ rd.altDown
                     spacePressed == msg.wParam = VK_SPACE \/ rd.spaceDown
                 IN  IF altPressed /\ spacePressed
                         THEN [show |-> TRUE, keyboard |-> TRUE,
                               pos |-> <<"GetWindowRect", <<0, 30>>>>]
                         ELSE no
          [] OTHER -> no

\* The procedure's outcome for (hWnd, msg): which of its four exits it takes.
\*   "DefWindowProcW"   no record, or a record without an original procedure
\*   "showSystemMenu"   a trigger: showSystemMenu_sys is called, then return 0
\*   "CallWindowProcW"  the recorded original procedure gets the message
SystemMenuHookWindowProc(hash, hWnd, msg, rd) ==
    IF hWnd \notin DOMAIN hash
        THEN [exit |-> "DefWindowProcW", to |-> NullProc, keyboard |-> FALSE,
              pos |-> <<"none", <<0, 0>>>>]
    ELSE LET data == hash[hWnd]
             d == HookDecision(msg, rd)
         IN  IF d.show
                 THEN [exit |-> "showSystemMenu", to |-> NullProc, keyboard |-> d.keyboard,
                       pos |-> d.pos]
             ELSE IF data.originalWindowProc # NullProc
                 THEN [exit |-> "CallWindowProcW", to |-> data.originalWindowProc,
                       keyboard |-> FALSE, pos |-> d.pos]
             ELSE [exit |-> "DefWindowProcW", to |-> NullProc, keyboard |-> FALSE,
                   pos |-> d.pos]

\* Variant: after the menu the procedure goes on to the forwarding code, which
\* reads `data`, a reference to the record looked up before the menu.
SystemMenuHookWindowProc_afterMenu_Forwards(hash, hWnd) ==
    [uses |-> {"data.originalWindowProc"},
     ret |-> IF hWnd \in DOMAIN hash THEN "CallWindowProcW" ELSE "read of a removed record"]

\* The rest of the procedure once showSystemMenu_sys has returned (lines
\* 154-155): what it reads of the table (looked up again or through `data`) and
\* of the context, and what it returns.
SystemMenuHookWindowProc_afterMenu(hash, hWnd) == [uses |-> {}, ret |-> 0]

----------------------------------------------------------------------------
(* Interaction State Machine: QtWindowEventFilter::sharedEventFilter.        *)

WindowStatus == {"Idle", "WaitingRelease", "PreparingMove", "Moving", "Resizing"}

Buttons == {"LeftButton", "RightButton", "MiddleButton"}

WindowStates == SUBSET {"WindowMaximized", "WindowMinimized", "WindowFullScreen"}

\* The window of the pointer events, and the pointer positions tried in it: the
\* top-left corner, the top border, the inside, the bottom-right corner.
WinW == 40
WinH == 30

PointerSamples ==
    {<<3, 3>>, <<WinW \div 2, 3>>, <<WinW \div 2, WinH \div 2>>, <<WinW - 3, WinH - 3>>}

\* (The handler's window is never null when it reads it: Q_ASSERT(window).)
EventWindows == {QWindow(v, WinW, WinH) : v \in Visibilities}

\* An event with everything the handler reads for it: the event's type, button
\* and position, isHostSizeFixed, isInTitleBarDraggableArea(scenePos), the
\* context's window, and the delegate's window flags and state.
Event(type, button, pos, fixedSize, inTitleBar, window, maximizeHint, windowState) ==
    [type |-> type, button |-> button, pos |-> pos, fixedSize |-> fixedSize,
     inTitleBar |-> inTitleBar, window |-> window, maximizeHint |-> maximizeHint,
     windowState |-> windowState]

PressEvents ==
    {Event("MouseButtonPress", b, p, f, t, w, FALSE, {}) :
        b \in Buttons, p \in PointerSamples, f \in BOOLEAN, t \in BOOLEAN, w \in EventWindows}

ReleaseEvents ==
    {Event("MouseButtonRelease", b, p, f, t, NoWindow, FALSE, {}) :
        b \in Buttons, p \in PointerSamples, f \in BOOLEAN, t \in BOOLEAN}

MoveEvents ==
    {Event("MouseMove", "NoButton", p, f, t, w, FALSE, {}) :
        p \in PointerSamples, f \in BOOLEAN, t \in BOOLEAN, w \in EventWindows}

DblClickEvents ==
    {Event("MouseButtonDblClick", b, <<WinW \div 2, 3>>, f, t, NoWindow, h, ws) :
        b \in {"LeftButton", "RightButton"}, f \in BOOLEAN, t \in BOOLEAN, h \in BOOLEAN,
        ws \in WindowStates}

\* An event type outside MouseButtonPress .. MouseMove.
OtherEvents == {Event("Wheel", "NoButton", <<WinW \div 2, WinH \div 2>>, f, t, NoWindow, FALSE, {}) :
                   f \in BOOLEAN, t \in BOOLEAN}

\* The result of one call: the two fields, the return value, whether the event
\* was accepted, the delegate calls, and whether showSystemMenu was called
\* (the caller runs it: it may block in the popup before the call goes on).
FilterResult(status, cursor, ret, accepted, calls, menu) ==
    [status |-> status, cursor |-> cursor, ret |-> ret, accepted |-> accepted,
     calls |-> calls, menu |-> menu]

\* Variant: the native move starts with the press in the title area.
onMouseButtonPress_MoveAtOnce(status, cursor, e) ==
    LET edges == calculateWindowEdges(e.window, e.pos)
    IN  IF e.button = "LeftButton" /\ ~e.fixedSize /\ edges # {}
            THEN FilterResult("Resizing", cursor, TRUE, TRUE,
                           << [fn |-> "startSystemResize", edges |-> edges] >>, FALSE)
        ELSE IF e.button = "LeftButton" /\ e.inTitleBar
            THEN FilterResult("Moving", cursor, TRUE, TRUE, << [fn |-> "startSystemMove"] >>,
                           FALSE)
        ELSE IF e.button = "RightButton" /\ e.inTitleBar
            THEN FilterResult("WaitingRelease", cursor, FALSE, FALSE, <<>>, TRUE)
        ELSE FilterResult("WaitingRelease", cursor, FALSE, FALSE, <<>>, FALSE)

\* Variant: a press is looked at in Idle only.
onMouseButtonPress_OnlyInIdle(status, cursor, e) ==
    LET edges == calculateWindowEdges(e.window, e.pos)
    IN  IF status # "Idle"
            THEN FilterResult(status, cursor, FALSE, FALSE, <<>>, FALSE)
        ELSE IF e.button = "LeftButton" /\ ~e.fixedSize /\ edges # {}
            THEN FilterResult("Resizing", cursor, TRUE, TRUE,
                           << [fn |-> "startSystemResize", edges |-> edges] >>, FALSE)
        ELSE IF e.button = "LeftButton" /\ e.inTitleBar
            THEN FilterResult("PreparingMove", cursor, TRUE, TRUE, <<>>, FALSE)
        ELSE IF e.button = "RightButton" /\ e.inTitleBar
            THEN FilterResult("WaitingRelease", cursor, FALSE, FALSE, <<>>, TRUE)
        ELSE FilterResult("WaitingRelease", cursor, FALSE, FALSE, <<>>, FALSE)

\* Variant: no test for a host of fixed size.
onMouseButtonPress_ResizesFixedSize(status, cursor, e) ==
    LET edges == calculateWindowEdges(e.window, e.pos)
    IN  IF e.button = "LeftButton" /\ edges # {}
            THEN FilterResult("Resizing", cursor, TRUE, TRUE,
                           << [fn |-> "startSystemResize", edges |-> edges] >>, FALSE)
        ELSE IF e.button = "LeftButton" /\ e.inTitleBar
            THEN FilterResult("PreparingMove", cursor, TRUE, TRUE, <<>>, FALSE)
        ELSE IF e.button = "RightButton" /\ e.inTitleBar
            THEN FilterResult("WaitingRelease", cursor, FALSE, FALSE, <<>>, TRUE)
        ELSE FilterResult("WaitingRelease", cursor, FALSE, FALSE, <<>>, FALSE)

onMouseButtonPress(status, cursor, e) ==
    LET edges == calculateWindowEdges(e.window, e.pos)
    IN  IF e.button = "LeftButton" /\ ~e.fixedSize /\ edges # {}
            THEN FilterResult("Resizing", cursor, TRUE, TRUE,
                           << [fn |-> "startSystemResize", edges |-> edges] >>, FALSE)
        ELSE IF e.button = "LeftButton" /\ e.inTitleBar
            THEN FilterResult("PreparingMove", cursor, TRUE, TRUE, <<>>, FALSE)
        ELSE IF e.button = "RightButton" /\ e.inTitleBar
            THEN FilterResult("WaitingRelease", cursor, FALSE, FALSE, <<>>, TRUE)
        ELSE FilterResult("WaitingRelease", cursor, FALSE, FALSE, <<>>, FALSE)

\* Variant: a release while resizing is handled like one in Idle.
onMouseButtonRelease_NotFromResizing(status, cursor, e) ==
    IF status \in {"PreparingMove", "Moving"}
        THEN FilterResult("Idle", cursor, TRUE, TRUE, <<>>, FALSE)
    ELSE IF status = "WaitingRelease"
        THEN FilterResult("Idle", cursor, FALSE, FALSE, <<>>, FALSE)
    ELSE IF e.inTitleBar
        THEN FilterResult(status, cursor, TRUE, TRUE, <<>>, FALSE)
    ELSE FilterResult(status, cursor, FALSE, FALSE, <<>>, FALSE)

\* Variant: in Idle every release is swallowed, wherever it is.
onMouseButtonRelease_SwallowsInIdle(status, cursor, e) ==
    IF status \in {"PreparingMove", "Moving", "Resizing"}
        THEN FilterResult("Idle", cursor, TRUE, TRUE, <<>>, FALSE)
    ELSE IF status = "WaitingRelease"
        THEN FilterResult("Idle", cursor, FALSE, FALSE, <<>>, FALSE)
    ELSE FilterResult(status, cursor, TRUE, TRUE, <<>>, FALSE)

onMouseButtonRelease(status, cursor, e) ==
    IF status \in {"PreparingMove", "Moving", "Resizing"}
        THEN FilterResult("Idle", cursor, TRUE, TRUE, <<>>, FALSE)
    ELSE IF status = "WaitingRelease"
        THEN FilterResult("Idle", cursor, FALSE, FALSE, <<>>, FALSE)
    ELSE IF e.inTitleBar
        THEN FilterResult(status, cursor, TRUE, TRUE, <<>>, FALSE)
    ELSE FilterResult(status, cursor, FALSE, FALSE, <<>>, FALSE)

\* Variant: the flag is not cleared when the cursor is restored.
onMouseMove_FlagStaysSet(status, cursor, e) ==
    IF status = "Moving"
        THEN FilterResult(status, cursor, TRUE, FALSE, <<>>, FALSE)
    ELSE IF status = "PreparingMove"
        THEN FilterResult("Moving", cursor, TRUE, TRUE, << [fn |-> "startSystemMove"] >>, FALSE)
    ELSE IF status = "Idle" /\ ~e.fixedSize
        THEN LET shape == calculateCursorShape(e.window, e.pos)
             IN  IF shape = "ArrowCursor"
                     THEN IF cursor
                              THEN FilterResult(status, cursor, FALSE, FALSE,
                                             << [fn |-> "restoreCursorShape"] >>, FALSE)
                              ELSE FilterResult(status, cursor, FALSE, FALSE, <<>>, FALSE)
                     ELSE FilterResult(status, TRUE, FALSE, FALSE,
                                    << [fn |-> "setCursorShape", shape |-> shape] >>, FALSE)
    ELSE FilterResult(status, cursor, FALSE, FALSE, <<>>, FALSE)

onMouseMove(status, cursor, e) ==
    IF status = "Moving"
        THEN FilterResult(status, cursor, TRUE, FALSE, <<>>, FALSE)
    ELSE IF status = "PreparingMove"
        THEN FilterResult("Moving", cursor, TRUE, TRUE, << [fn |-> "startSystemMove"] >>, FALSE)
    ELSE IF status = "Idle" /\ ~e.fixedSize
        THEN LET shape == calculateCursorShape(e.window, e.pos)
             IN  IF shape = "ArrowCursor"
                     THEN IF cursor
                              THEN FilterResult(status, FALSE, FALSE, FALSE,
                                             << [fn |-> "restoreCursorShape"] >>, FALSE)
                              ELSE FilterResult(status, cursor, FALSE, FALSE, <<>>, FALSE)
                     ELSE FilterResult(status, TRUE, FALSE, FALSE,
                                    << [fn |-> "setCursorShape", shape |-> shape] >>, FALSE)
    ELSE FilterResult(status, cursor, FALSE, FALSE, <<>>, FALSE)

\* Variant: no test for a full-screen window.
onMouseButtonDblClick_AlsoFullScreen(status, cursor, e) ==
    IF e.button = "LeftButton" /\ e.inTitleBar /\ ~e.fixedSize /\ e.maximizeHint
        THEN FilterResult(status, cursor, TRUE, TRUE,
                       << [fn |-> "setWindowState",
                           state |-> IF "WindowMaximized" \in e.windowState
                                         THEN e.windowState \ {"WindowMaximized"}
                                         ELSE e.windowState \cup {"WindowMaximized"}] >>,
                       FALSE)
        ELSE FilterResult(status, cursor, FALSE, FALSE, <<>>, FALSE)

onMouseButtonDblClick(status, cursor, e) ==
    IF /\ e.button = "LeftButton" /\ e.inTitleBar /\ ~e.fixedSize
       /\ e.maximizeHint /\ "WindowFullScreen" \notin e.windowState
        THEN FilterResult(status, cursor, TRUE, TRUE,
                       << [fn |-> "setWindowState",
                           state |-> IF "WindowMaximized" \in e.windowState
                                         THEN e.windowState \ {"WindowMaximized"}
                                         ELSE e.windowState \cup {"WindowMaximized"}] >>,
                       FALSE)
        ELSE FilterResult(status, cursor, FALSE, FALSE, <<>>, FALSE)

sharedEventFilter(status, cursor, e) ==
    CASE e.type = "MouseButtonPress" -> onMouseButtonPress(status, cursor, e)
      [] e.type = "MouseButtonRelease" -> onMouseButtonRelease(status, cursor, e)
      [] e.type = "MouseMove" -> onMouseMove(status, cursor, e)
      [] e.type = "MouseButtonDblClick" -> onMouseButtonDblClick(status, cursor, e)
      [] OTHER -> FilterResult(status, cursor, FALSE, FALSE, <<>>, FALSE)

\* QtWindowContext::virtual_hook(ShowSystemMenuHook, &pos): the call of
\* showSystemMenu_sys it makes; none without a window identity (the base class's
\* hook).
ShowSystemMenuCall(hWnd, pos, selectFirstEntry, fixedSize) ==
    [fn |-> "showSystemMenu_sys", hWnd |-> hWnd, pos |-> pos,
     selectFirstEntry |-> selectFirstEntry, fixedSize |-> fixedSize]

virtual_hook(windowId, pos, fixedSize) ==
    IF windowId # NoWinId
        THEN << ShowSystemMenuCall(windowId, <<"toNativeGlobalPosition", pos>>, FALSE,
                                   fixedSize) >>
        ELSE <<>>

----------------------------------------------------------------------------
(* The inputs the steps draw. *)

WinIds == Hwnd \cup {NoWinId}

\* The reads of showSystemMenu_sys; without a menu handle nothing else is read.
MenuInputs ==
    {rd \in MenuReads : rd.hMenu \/ (~rd.max /\ ~rd.allowMaximize /\ ~rd.allowMinimize)}

\* A message with the reads the procedure makes for it: the title area for
\* WM_RBUTTONUP; for a key message the state of the Alt key unless wParam is
\* VK_MENU, and that of the space bar unless wParam is VK_SPACE.
HookInputs ==
    {in \in Messages \X HookReads :
        LET m == in[1]
            rd == in[2]
            key == m.uMsg \in {"WM_KEYDOWN", "WM_SYSKEYDOWN"}
        IN  /\ rd.inTitleBar => m.uMsg = "WM_RBUTTONUP"
            /\ rd.altDown => key /\ m.wParam # VK_MENU
            /\ rd.spaceDown => key /\ m.wParam # VK_SPACE}

\* The reads of a call that makes none.
NoReads == [inTitleBar |-> FALSE, altDown |-> FALSE, spaceDown |-> FALSE]

\* No right click in progress.  Otherwise: the button is down ("pressed") or up
\* again ("released"), where it went down, whether that is in the draggable
\* title area, and how many times showSystemMenu_sys was called for the click.
NoClick == [stage |-> "none", pos |-> <<0, 0>>, title |-> FALSE, menus |-> 0]

EmptyMenu == [enabled |-> {}, hilited |-> {}, default |-> 0]

\* A call of showSystemMenu_sys on the stack: just made ("call"), or inside
\* TrackPopupMenu ("tracking").
Frame(caller, call) == [caller |-> caller, stage |-> "call", call |-> call]

\* The same call inside TrackPopupMenu: of its arguments and locals only hWnd
\* is used after the popup.
Tracking(fr) ==
    [caller |-> fr.caller, stage |-> "tracking",
     call |-> [fn |-> fr.call.fn, hWnd |-> fr.call.hWnd]]

Top == popup[Len(popup)]

Running == popup = <<>>

\* Whether SC_RESTORE is highlighted in a menu after `calls`.
HiliteAfter(hilited, calls) ==
    SC_RESTORE \in MenuAfter([EmptyMenu EXCEPT !.hilited = IF hilited THEN {SC_RESTORE} ELSE {}],
                             calls).hilited

\* No call is between two of its statements: none runs, or the innermost one
\* waits in TrackPopupMenu, whose message loop dispatches events.
Interruptible == IF popup = <<>> THEN TRUE ELSE Top.stage = "tracking"

----------------------------------------------------------------------------
(* Steps. *)

\* What a step that takes the hook off window `old` undoes: the install of the
\* step before it, when that one was install(old, ..), with what that install
\* found (whether `old` had a record, the original procedure in that record,
\* and the window's procedure).
NothingUndone ==
    [of |-> NoWinId, had |-> FALSE, recorded |-> NullProc, procBefore |-> NullProc]

Undoes(old) ==
    IF old # NoWinId /\ obs.op = "winIdChanged" /\ obs.winId = old
        THEN [of |-> old, had |-> obs.had, recorded |-> obs.recorded,
              procBefore |-> obs.procBefore]
        ELSE NothingUndone

\* The base class's notification: it stores the window's new identity in
\* m_windowId (and passes the one stored before to winIdChanged).
notifyWinIdChange(ids, c, winId) == [ids EXCEPT ![c] = winId]

\* The window of context c gets the identity winId (possibly none): the base
\* class stores it and calls winIdChanged(winId, the identity it had).  Like the
\* destructor, it can run while a popup menu is open (the menu's message loop
\* dispatches events), not between two statements of a running call.
NotifyWinIdChange(c, winId, windowHandle) ==
    /\ alive[c]
    /\ Interruptible
    /\ LET old == m_windowId[c]
           r == winIdChanged(g_qtContextHash, wndProc, c, winId, old)
           \* the table and the procedures as install(winId, c) finds them
           mid == winIdChanged(g_qtContextHash, wndProc, c, NoWinId, old)
       IN  /\ g_qtContextHash' = r.hash
           /\ wndProc' = r.procs
           /\ obs' = [op |-> "winIdChanged", ctx |-> c, winId |-> winId, oldWinId |-> old,
                      had |-> winId \in DOMAIN mid.hash,
                      recorded |-> IF winId \in DOMAIN mid.hash
                                       THEN mid.hash[winId].originalWindowProc
                                       ELSE NullProc,
                      procBefore |-> IF winId # NoWinId THEN mid.procs[winId] ELSE NullProc,
                      undoes |-> IF winId # old THEN Undoes(old) ELSE NothingUndone,
                      calls |-> winIdChanged_flags(windowHandle)]
    /\ m_windowId' = notifyWinIdChange(m_windowId, c, winId)
    /\ UNCHANGED <<alive, m_windowStatus, m_cursorShapeChanged, hilite, popup, geom, click>>

DestroyContext(c) ==
    /\ alive[c]
    /\ Interruptible
    /\ LET r == destroyContext(g_qtContextHash, wndProc, m_windowId[c])
       IN  /\ g_qtContextHash' = r.hash
           /\ wndProc' = r.procs
    /\ alive' = [alive EXCEPT ![c] = FALSE]
    \* (the object is gone: its field is given the value of no object)
    /\ m_windowId' = [m_windowId EXCEPT ![c] = NoWinId]
    /\ obs' = [op |-> "~QtWindowContext", ctx |-> c, winId |-> m_windowId[c],
               undoes |-> Undoes(m_windowId[c]), calls |-> <<>>]
    /\ UNCHANGED <<m_windowStatus, m_cursorShapeChanged, hilite, popup, geom, click>>

\* One call of SystemMenuHookWindowProc(hWnd, msg), up to its return or to its
\* call of showSystemMenu_sys.
HookCall(hWnd, msg, rd, via) ==
    LET out == SystemMenuHookWindowProc(g_qtContextHash, hWnd, msg, rd)
        seen == [op |-> "SystemMenuHookWindowProc", via |-> via, hWnd |-> hWnd, msg |-> msg,
                 reads |-> rd,
                 hadRecord |-> hWnd \in DOMAIN g_qtContextHash, exit |-> out.exit]
    IN  IF out.exit # "showSystemMenu"
            THEN /\ obs' = seen @@ [ret |-> out.exit,
                                    calls |-> << [fn |-> out.exit, proc |-> out.to, msg |-> msg] >>]
                 /\ UNCHANGED popup
            ELSE \E fixedSize \in BOOLEAN :
                    LET call == ShowSystemMenuCall(hWnd, out.pos, out.keyboard, fixedSize)
                    IN  /\ obs' = seen @@ [ret |-> "in showSystemMenu_sys", calls |-> <<call>>]
                        /\ popup' = Append(popup, Frame("SystemMenuHookWindowProc", call))

\* The OS delivers msg to hWnd: it calls the window's current procedure.
WindowMessage(hWnd, msg, rd) ==
    /\ wndProc[hWnd] # NullProc
    /\ Interruptible
    /\ ~Running => msg \notin InputMessages
    /\ wndProc[hWnd] # HookProc => rd = NoReads
    /\ IF wndProc[hWnd] = HookProc
           THEN HookCall(hWnd, msg, rd, "GWLP_WNDPROC")
           ELSE /\ obs' = [op |-> "WindowMessage", via |-> "GWLP_WNDPROC", hWnd |-> hWnd,
                           msg |-> msg,
                           calls |-> << [fn |-> wndProc[hWnd], proc |-> wndProc[hWnd],
                                         msg |-> msg] >>]
                /\ UNCHANGED popup
    /\ UNCHANGED <<g_qtContextHash, wndProc, alive, m_windowId, m_windowStatus,
                   m_cursorShapeChanged, hilite, geom, click>>

\* A holder of the procedure's address (a window procedure chained on top of it,
\* a message in flight when the hook was removed) calls it for a window that has
\* no record.
ChainedHookCall(hWnd, msg, rd) ==
    /\ wndProc[hWnd] \notin {NullProc, HookProc}
    /\ hWnd \notin DOMAIN g_qtContextHash
    /\ Running
    /\ rd = NoReads
    /\ HookCall(hWnd, msg, rd, "chained")
    /\ UNCHANGED <<g_qtContextHash, wndProc, alive, m_windowId, m_windowStatus,
                   m_cursorShapeChanged, hilite, geom, click>>

\* One call of sharedEventFilter of context m_context's filter, up to its return
\* or to its call of showSystemMenu_sys (a right press in the title area).
FilterCall(e) ==
    /\ LET r == sharedEventFilter(m_windowStatus, m_cursorShapeChanged, e)
           menu == IF r.menu THEN virtual_hook(m_windowId[m_context], e.pos, e.fixedSize)
                             ELSE <<>>
           \* (the two fields as the call found them)
           seen == [op |-> "sharedEventFilter", ev |-> e, status |-> m_windowStatus,
                    cursor |-> m_cursorShapeChanged]
       IN  IF menu = <<>>
               THEN /\ obs' = seen @@ [ret |-> r.ret, accepted |-> r.accepted, calls |-> r.calls]
                    /\ m_windowStatus' = r.status
                    /\ m_cursorShapeChanged' = r.cursor
                    /\ UNCHANGED popup
               ELSE /\ obs' = seen @@ [ret |-> "in showSystemMenu_sys", accepted |-> FALSE,
                                       calls |-> menu]
                    /\ popup' = Append(popup, Frame("sharedEventFilter", menu[1]))
                    /\ UNCHANGED <<m_windowStatus, m_cursorShapeChanged>>

FilterEvent(e) ==
    /\ alive[m_context]
    /\ Running
    /\ FilterCall(e)
    /\ UNCHANGED <<g_qtContextHash, wndProc, alive, m_windowId, hilite, geom, click>>

\* The window of context m_context, when the hook is on it.
HookedWindow ==
    IF alive[m_context] /\ m_windowId[m_context] # NoWinId
          /\ wndProc[m_windowId[m_context]] = HookProc
        THEN m_windowId[m_context]
        ELSE NoWinId

\* The OS delivers a message of the right button to the hooked window of
\* m_context.  Its procedure is SystemMenuHookWindowProc: a message it swallows
\* ends there (showSystemMenu_sys, return 0, lines 153-156); any other goes to
\* the recorded original procedure (CallWindowProcW, 158-160), the toolkit's,
\* which delivers it to the window as a mouse event, and sharedEventFilter
\* gets that event.  `e` is the event the toolkit makes of the message.
RightButtonMessage(uMsg, e) ==
    LET hWnd == HookedWindow
        msg == [uMsg |-> uMsg, wParam |-> 0, lParam |-> e.pos]
        rd == [NoReads EXCEPT !.inTitleBar = uMsg = "WM_RBUTTONUP" /\ e.inTitleBar]
        out == SystemMenuHookWindowProc(g_qtContextHash, hWnd, msg, rd)
    IN  /\ hWnd # NoWinId
        /\ Running
        /\ IF out.exit = "showSystemMenu"
               THEN /\ HookCall(hWnd, msg, rd, "GWLP_WNDPROC")
                    /\ UNCHANGED <<m_windowStatus, m_cursorShapeChanged>>
               ELSE /\ out.exit = "CallWindowProcW" /\ out.to = QtWindowProc
                    /\ FilterCall(e)
        /\ UNCHANGED <<g_qtContextHash, wndProc, alive, m_windowId, hilite, geom>>

\* The calls of showSystemMenu_sys the step makes.
MenuCalls(o) == Len(SelectSeq(o.calls, LAMBDA c : c.fn = "showSystemMenu_sys"))

\* The right button goes down over the window.
RightButtonDown(e) ==
    /\ click.stage # "pressed"
    /\ e.type = "MouseButtonPress" /\ e.button = "RightButton"
    /\ RightButtonMessage("WM_RBUTTONDOWN", e)
    /\ click' = [stage |-> "pressed", pos |-> e.pos, title |-> e.inTitleBar,
                 menus |-> MenuCalls(obs')]

\* The right button goes up where it went down.
RightButtonUp(e) ==
    /\ click.stage = "pressed"
    /\ e.type = "MouseButtonRelease" /\ e.button = "RightButton"
    /\ e.pos = click.pos /\ e.inTitleBar = click.title
    /\ RightButtonMessage("WM_RBUTTONUP", e)
    /\ click' = [click EXCEPT !.stage = "released", !.menus = @ + MenuCalls(obs')]

\* The caller of showSystemMenu_sys goes on to its end once the function has
\* returned: the hook procedure returns 0; the filter (the press branch) sets
\* WaitingRelease and returns false.  A filter whose context was destroyed while
\* the popup was open writes its field through a dangling pointer: any value.
Resume(fr, seen) ==
    IF fr.caller = "sharedEventFilter"
        THEN /\ obs' = seen @@ [ret |-> FALSE]
             /\ IF alive[m_context]
                    THEN m_windowStatus' = "WaitingRelease"
                    ELSE m_windowStatus' \in WindowStatus
        ELSE /\ LET r == SystemMenuHookWindowProc_afterMenu(g_qtContextHash, fr.call.hWnd)
                IN  obs' = seen @@ [ret |-> r.ret, uses |-> r.uses]
             /\ UNCHANGED m_windowStatus

\* showSystemMenu_sys from its first line to TrackPopupMenu, or to its return
\* when the window has no system menu.
ShowSystemMenu(rd) ==
    /\ ~Running
    /\ Top.stage = "call"
    /\ LET fr == Top
           c == fr.call
           calls == showSystemMenu_sys(c.hWnd, c.pos, c.selectFirstEntry, c.fixedSize, rd)
           seen == [op |-> "showSystemMenu_sys", caller |-> fr.caller, call |-> c,
                    reads |-> rd, calls |-> calls]
       IN  IF calls = <<>>
               THEN /\ popup' = SubSeq(popup, 1, Len(popup) - 1)
                    /\ Resume(fr, seen @@ [menuRet |-> TRUE])
                    /\ UNCHANGED hilite
               ELSE /\ popup' = [popup EXCEPT ![Len(popup)] = Tracking(fr)]
                    /\ hilite' = [hilite EXCEPT ![c.hWnd] = HiliteAfter(@, calls)]
                    /\ obs' = seen @@ [menuRet |-> "in TrackPopupMenu", ret |-> "in TrackPopupMenu"]
                    /\ UNCHANGED m_windowStatus
    /\ UNCHANGED <<g_qtContextHash, wndProc, alive, m_windowId, m_cursorShapeChanged, geom, click>>

\* TrackPopupMenu returns `result`, 0 (dismissed) or the command chosen, and
\* showSystemMenu_sys runs to its end.
PopupReturn(result) ==
    /\ ~Running
    /\ Top.stage = "tracking"
    /\ LET fr == Top
           seen == [op |-> "TrackPopupMenu", caller |-> fr.caller, call |-> fr.call,
                    hilited |-> hilite[fr.call.hWnd], result |-> result,
                    menuRet |-> showSystemMenu_sys_result(result),
                    calls |-> showSystemMenu_sys_after(fr.call.hWnd, result)]
       IN  /\ popup' = SubSeq(popup, 1, Len(popup) - 1)
           /\ hilite' = [hilite EXCEPT ![fr.call.hWnd] = HiliteAfter(@, seen.calls)]
           /\ Resume(fr, seen)
    /\ UNCHANGED <<g_qtContextHash, wndProc, alive, m_windowId, m_cursorShapeChanged, geom, click>>

\* The geometry functions applied to the inputs drawn at the start.
CalcWindowEdges ==
    /\ "edges" \notin geom.done
    /\ geom' = [geom EXCEPT !.edges = calculateWindowEdges(geom.window, geom.pos),
                            !.done = @ \cup {"edges"}]
    /\ UNCHANGED <<g_qtContextHash, wndProc, alive, m_windowId, m_windowStatus,
                   m_cursorShapeChanged, hilite, popup, obs, click>>

CalcCursorShape ==
    /\ "shape" \notin geom.done
    /\ geom' = [geom EXCEPT !.shape = calculateCursorShape(geom.window, geom.pos),
                            !.done = @ \cup {"shape"}]
    /\ UNCHANGED <<g_qtContextHash, wndProc, alive, m_windowId, m_windowStatus,
                   m_cursorShapeChanged, hilite, popup, obs, click>>

----------------------------------------------------------------------------
(* Specifications. *)

\* (A window with a native identity has a window handle object.)
WinIdChange ==
    \E c \in Ctx, winId \in WinIds, h \in BOOLEAN :
        /\ winId # NoWinId => h
        /\ NotifyWinIdChange(c, winId, h)

Destroy == \E c \in Ctx : DestroyContext(c)

NativeMessage ==
    \E hWnd \in Hwnd, in \in HookInputs : WindowMessage(hWnd, in[1], in[2])

ChainedCall ==
    \E hWnd \in Hwnd, in \in HookInputs : ChainedHookCall(hWnd, in[1], in[2])

MenuItems == {SC_SIZE, SC_MOVE, SC_MINIMIZE, SC_MAXIMIZE, SC_CLOSE, SC_RESTORE}

MenuOpens == \E rd \in MenuInputs : ShowSystemMenu(rd)

PopupCloses == \E result \in {0} \cup MenuItems : PopupReturn(result)

MouseButtonPress == \E e \in PressEvents : FilterEvent(e)

MouseButtonRelease == \E e \in ReleaseEvents : FilterEvent(e)

MouseMove == \E e \in MoveEvents : FilterEvent(e)

MouseButtonDblClick == \E e \in DblClickEvents : FilterEvent(e)

OtherEvent == \E e \in OtherEvents : FilterEvent(e)

InitProgram ==
    /\ g_qtContextHash = [h \in {} |-> NoRecord]
    /\ m_windowId = [c \in Ctx |-> NoWinId]
    /\ m_windowStatus = "Idle"
    /\ m_cursorShapeChanged = FALSE
    /\ hilite = [h \in Hwnd |-> FALSE]
    /\ popup = <<>>
    /\ obs = [op |-> "none", calls |-> <<>>]
    /\ click = NoClick

\* Spec: one window context, its window and the pointer events of its filter.
Init ==
    /\ InitProgram
    /\ alive = [c \in Ctx |-> c = m_context]
    /\ wndProc = [h \in Hwnd |-> QtWindowProc]
    /\ geom = GeomIdle

Next ==
    \/ WinIdChange
    \/ Destroy
    \/ MenuOpens
    \/ PopupCloses
    \/ MouseButtonPress
    \/ MouseButtonRelease
    \/ MouseMove
    \/ MouseButtonDblClick
    \/ OtherEvent

Spec == Init /\ [][Next]_vars

\* SpecHook: several contexts over several window handles, the last of which may
\* not be (or no longer be) a window; the hook table, the hook procedure and the
\* menu.
InitHook ==
    /\ InitProgram
    /\ alive = [c \in Ctx |-> TRUE]
    /\ \E valid \in BOOLEAN :
           wndProc = [h \in Hwnd |-> IF h = MaxHwnd /\ ~valid THEN NullProc ELSE QtWindowProc]
    /\ geom = GeomIdle

NextHook ==
    \/ WinIdChange
    \/ Destroy
    \/ NativeMessage
    \/ ChainedCall
    \/ MenuOpens
    \/ PopupCloses

SpecHook == InitHook /\ [][NextHook]_vars

\* SpecOwn: as SpecHook, every context with a window of its own: a window's
\* identity is given to a context only while no other context has it.
WinIdChangeOwn ==
    \E c \in Ctx, winId \in WinIds, h \in BOOLEAN :
        /\ winId # NoWinId => h
        /\ winId # NoWinId => \A d \in Ctx \ {c} : m_windowId[d] # winId
        /\ NotifyWinIdChange(c, winId, h)

NextOwn ==
    \/ WinIdChangeOwn
    \/ Destroy
    \/ NativeMessage
    \/ ChainedCall
    \/ MenuOpens
    \/ PopupCloses

SpecOwn == InitHook /\ [][NextOwn]_vars

\* SpecClick: one context, its window with the hook on it, and right clicks on
\* that window as the OS delivers them.
RightPress == \E e \in PressEvents : RightButtonDown(e)

RightRelease == \E e \in ReleaseEvents : RightButtonUp(e)

NextClick ==
    \/ WinIdChange
    \/ RightPress
    \/ RightRelease
    \/ MenuOpens
    \/ PopupCloses

SpecClick == Init /\ [][NextClick]_vars

\* SpecGeom: the two geometry functions over window sizes and pointer positions.
InitGeom ==
    /\ InitProgram
    /\ alive = [c \in Ctx |-> TRUE]
    /\ wndProc = [h \in Hwnd |-> QtWindowProc]
    /\ \E v \in Visibilities, s \in GeomSizes :
           \E x \in Coords(s[1]), y \in Coords(s[2]) :
               geom = [GeomIdle EXCEPT !.window = QWindow(v, s[1], s[2]), !.pos = <<x, y>>]

NextGeom ==
    \/ CalcWindowEdges
    \/ CalcCursorShape

SpecGeom == InitGeom /\ [][NextGeom]_vars

----------------------------------------------------------------------------
(* Properties of the geometry functions (SpecGeom). *)

\* Both functions have been applied to the inputs of this behaviour.
GeomDone == geom.done = {"edges", "shape"}

\* The edges whose border strip (kDefaultResizeBorderThickness wide, measured
\* from that edge inwards) contains the pointer.
NearEdges ==
    LET x == geom.pos[1]
        y == geom.pos[2]
        B == kDefaultResizeBorderThickness
    IN  {e \in {"LeftEdge", "RightEdge", "TopEdge", "BottomEdge"} :
            \/ e = "LeftEdge" /\ x <= B - 1
            \/ e = "RightEdge" /\ geom.window.width - x <= B
            \/ e = "TopEdge" /\ y <= B - 1
            \/ e = "BottomEdge" /\ geom.window.height - y <= B}

InsideWindow ==
    /\ geom.pos[1] \in 0 .. geom.window.width - 1
    /\ geom.pos[2] \in 0 .. geom.window.height - 1

NormalWindow == geom.window.present /\ geom.window.visibility = "Windowed"

\* C7: for a window in the normal windowed state and a pointer inside it, the
\* edge set and the cursor shape agree with the border strips the pointer is
\* in: no strip gives no edge and the default cursor; one strip gives that edge
\* and the horizontal (left/right) or vertical (top/bottom) cursor; two
\* adjacent strips give both edges and a diagonal cursor, the same one for
\* top-left and bottom-right, the other one for top-right and bottom-left.  For
\* a window that is not in the normal windowed state the edge set is empty and
\* the cursor is the default one.
C7_GeometryClassification ==
    GeomDone =>
        /\ (geom.window.present /\ geom.window.visibility # "Windowed") =>
               geom.edges = {} /\ geom.shape = "ArrowCursor"
        /\ (NormalWindow /\ InsideWindow) =>
            /\ NearEdges = {} => geom.edges = {} /\ geom.shape = "ArrowCursor"
            /\ \A e \in {"LeftEdge", "RightEdge"} :
                   NearEdges = {e} => geom.edges = {e} /\ geom.shape = "SizeHorCursor"
            /\ \A e \in {"TopEdge", "BottomEdge"} :
                   NearEdges = {e} => geom.edges = {e} /\ geom.shape = "SizeVerCursor"
            /\ \A pair \in {{"TopEdge", "LeftEdge"}, {"BottomEdge", "RightEdge"}} :
                   NearEdges = pair => geom.edges = pair /\ geom.shape = "SizeFDiagCursor"
            /\ \A pair \in {{"TopEdge", "RightEdge"}, {"BottomEdge", "LeftEdge"}} :
                   NearEdges = pair => geom.edges = pair /\ geom.shape = "SizeBDiagCursor"

\* A pointer in the top-right corner of a windowed window, classified.
C7_Witness ==
    /\ GeomDone
    /\ NormalWindow
    /\ InsideWindow
    /\ NearEdges = {"TopEdge", "RightEdge"}
    /\ geom.edges = {"TopEdge", "RightEdge"}
    /\ geom.shape = "SizeBDiagCursor"

\* The 640x480 windowed window with the pointer at <<x, y>>, classified.
At640x480(x, y) ==
    /\ GeomDone
    /\ geom.window = QWindow("Windowed", 640, 480)
    /\ geom.pos = <<x, y>>

DiagonalCursors == {"SizeFDiagCursor", "SizeBDiagCursor"}

C8_FirstThreePoints ==
    /\ At640x480(3, 3) =>
           geom.edges = {"TopEdge", "LeftEdge"} /\ geom.shape \in DiagonalCursors
    /\ At640x480(320, 2) => geom.edges = {"TopEdge"} /\ geom.shape = "SizeVerCursor"
    /\ At640x480(320, 240) => geom.edges = {} /\ geom.shape = "ArrowCursor"

\* C8 as stated: in a 640x480 windowed window with an 8-pixel border, (3,3)
\* gives {Top, Left} and a diagonal cursor, (320,2) gives {Top} and the vertical
\* cursor, (320,240) gives no edge and the default cursor, and (637,477) gives
\* {Bottom, Right} and the diagonal cursor opposite to the one of (3,3).
C8_AsStated ==
    /\ C8_FirstThreePoints
    /\ At640x480(637, 477) =>
           /\ geom.edges = {"BottomEdge", "RightEdge"}
           /\ geom.shape \in DiagonalCursors
           /\ geom.shape # calculateCursorShape(geom.window, <<3, 3>>)

\* C8, amended: as stated for the first three points; (637,477) gives
\* {Bottom, Right} and the same diagonal cursor as (3,3), SizeFDiagCursor.
C8_ConcretePoints ==
    /\ C8_FirstThreePoints
    /\ At640x480(3, 3) => geom.shape = "SizeFDiagCursor"
    /\ At640x480(637, 477) =>
           /\ geom.edges = {"BottomEdge", "RightEdge"}
           /\ geom.shape = "SizeFDiagCursor"
           /\ geom.shape = calculateCursorShape(geom.window, <<3, 3>>)

\* The bottom-right point of the 640x480 window, classified.
C8_Witness ==
    /\ At640x480(637, 477)
    /\ geom.edges = {"BottomEdge", "RightEdge"}
    /\ geom.shape \in DiagonalCursors

AdjacentPairs ==
    {{"TopEdge", "LeftEdge"}, {"TopEdge", "RightEdge"},
     {"BottomEdge", "LeftEdge"}, {"BottomEdge", "RightEdge"}}

\* C20: for every window size, also under twice the border thickness, and every
\* pointer position: the edge set never has both the left and the right edge,
\* or both the top and the bottom edge, and the cursor agrees with it: the arrow
\* exactly for no edge, the horizontal cursor exactly for {left} or {right},
\* the vertical one exactly for {top} or {bottom}, a diagonal one exactly for
\* two adjacent edges.
C20_NoOppositeEdges ==
    GeomDone =>
        /\ ~({"LeftEdge", "RightEdge"} \subseteq geom.edges)
        /\ ~({"TopEdge", "BottomEdge"} \subseteq geom.edges)
        /\ geom.shape = "ArrowCursor" <=> geom.edges = {}
        /\ geom.shape = "SizeHorCursor" <=> geom.edges \in {{"LeftEdge"}, {"RightEdge"}}
        /\ geom.shape = "SizeVerCursor" <=> geom.edges \in {{"TopEdge"}, {"BottomEdge"}}
        /\ geom.shape \in DiagonalCursors <=> geom.edges \in AdjacentPairs

----------------------------------------------------------------------------
(* Properties of the system menu controller (SpecHook). *)

Range(seq) == {seq[i] : i \in DOMAIN seq}

IsPost(c) == c.fn = "PostMessageW"

\* C6: whenever showSystemMenu_sys has configured the menu (the window has a
\* system menu), for the values it read of maximized (IsZoomed), maximizable
\* and minimizable (the window style) and the fixedSize it was given: every
\* item got its state; Close is enabled; Maximize is enabled iff not maximized,
\* not fixed-size and maximizable; Restore is enabled iff maximized, not
\* fixed-size and maximizable; Minimize is enabled iff minimizable; Size is
\* enabled iff neither maximized nor fixed-size; Move is enabled iff not
\* maximized; the default item is Restore when maximized, otherwise Maximize.
C6_MenuConfiguration ==
    (obs.op = "showSystemMenu_sys" /\ obs.reads.hMenu) =>
        LET menu == MenuAfter(EmptyMenu, obs.calls)
            maximized == obs.reads.max
            fixedSize == obs.call.fixedSize
            maximizable == obs.reads.allowMaximize
            minimizable == obs.reads.allowMinimize
        IN  /\ {c.item : c \in {d \in Range(obs.calls) : d.fn = "EnableMenuItem"}} = MenuItems
            /\ SC_CLOSE \in menu.enabled
            /\ SC_MAXIMIZE \in menu.enabled <=> (~maximized /\ ~fixedSize /\ maximizable)
            /\ SC_RESTORE \in menu.enabled <=> (maximized /\ ~fixedSize /\ maximizable)
            /\ SC_MINIMIZE \in menu.enabled <=> minimizable
            /\ SC_SIZE \in menu.enabled <=> (~maximized /\ ~fixedSize)
            /\ SC_MOVE \in menu.enabled <=> ~maximized
            /\ menu.default = IF maximized THEN SC_RESTORE ELSE SC_MAXIMIZE

\* The menu of a maximized, resizable, maximizable window has been configured.
C6_Witness ==
    /\ obs.op = "showSystemMenu_sys"
    /\ obs.reads.hMenu /\ obs.reads.max /\ obs.reads.allowMaximize /\ ~obs.call.fixedSize
    /\ SC_RESTORE \in MenuAfter(EmptyMenu, obs.calls).enabled
    /\ SC_MAXIMIZE \notin MenuAfter(EmptyMenu, obs.calls).enabled
    /\ MenuAfter(EmptyMenu, obs.calls).default = SC_RESTORE

\* C10: showSystemMenu_sys only configures the menu and posts.  When the popup
\* has returned, one WM_SYSCOMMAND carrying the chosen command has been posted
\* to the window if a command was chosen, and nothing if the popup was
\* dismissed; the Restore highlight has been cleared in both cases.  Up to the
\* popup, and when the window has no system menu, nothing is posted, and
\* without a system menu nothing is called at all.
C10_MenuPostsChoice ==
    /\ obs.op = "TrackPopupMenu" =>
        /\ SelectSeq(obs.calls, IsPost) =
               IF obs.result # 0 THEN << PostMessageW(obs.call.hWnd, obs.result) >> ELSE <<>>
        /\ \A c \in Range(obs.calls) : c.fn \in {"HiliteMenuItem", "PostMessageW"}
        /\ HiliteMenuItem(SC_RESTORE, FALSE) \in Range(obs.calls)
        /\ ~hilite[obs.call.hWnd]
    /\ obs.op = "showSystemMenu_sys" =>
        /\ \A c \in Range(obs.calls) :
               c.fn \in {"EnableMenuItem", "HiliteMenuItem", "SetMenuDefaultItem", "TrackPopupMenu"}
        /\ ~obs.reads.hMenu => obs.calls = <<>>

\* A menu opened from the keyboard (Restore highlighted) has returned a command.
C10_Witness ==
    /\ obs.op = "TrackPopupMenu"
    /\ obs.hilited
    /\ obs.result = SC_CLOSE
    /\ PostMessageW(obs.call.hWnd, SC_CLOSE) \in Range(obs.calls)
    /\ ~hilite[obs.call.hWnd]

----------------------------------------------------------------------------
(* Properties of the hook procedure and the hook table (SpecHook). *)

\* The messages that open the system menu: WM_RBUTTONUP in the draggable title
\* area, WM_NCRBUTTONUP with hit-test code HTCAPTION, WM_SYSCOMMAND with command
\* SC_KEYMENU (the low four bits of wParam are not part of the command) and
\* the space key, and a key-down with Alt and Space both pressed (each either
\* the key of the message or held down).
IsMenuTrigger(msg, rd) ==
    \/ msg.uMsg = "WM_RBUTTONUP" /\ rd.inTitleBar
    \/ msg.uMsg = "WM_NCRBUTTONUP" /\ msg.wParam = HTCAPTION
    \/ msg.uMsg = "WM_SYSCOMMAND" /\ (msg.wParam \div 16) * 16 = SC_KEYMENU
          /\ msg.lParam = VK_SPACE
    \/ /\ msg.uMsg \in {"WM_KEYDOWN", "WM_SYSKEYDOWN"}
       /\ VK_MENU \in {msg.wParam} \cup (IF rd.altDown THEN {VK_MENU} ELSE {})
       /\ VK_SPACE \in {msg.wParam} \cup (IF rd.spaceDown THEN {VK_SPACE} ELSE {})

\* C5: every call of the hook procedure makes exactly one call: DefWindowProcW
\* with the message if the window has no record; showSystemMenu_sys if it has
\* one and the message is a menu trigger; otherwise CallWindowProcW of the
\* recorded original procedure with the message unchanged.  A call that showed
\* the menu returns 0 once showSystemMenu_sys has returned, without calling
\* the original procedure.
C5_HookDispatch ==
    /\ obs.op = "SystemMenuHookWindowProc" =>
        /\ Len(obs.calls) = 1
        /\ ~obs.hadRecord =>
               obs.calls[1] = [fn |-> "DefWindowProcW", proc |-> NullProc, msg |-> obs.msg]
        /\ (obs.hadRecord /\ IsMenuTrigger(obs.msg, obs.reads)) =>
               /\ obs.calls[1].fn = "showSystemMenu_sys"
               /\ obs.calls[1].hWnd = obs.hWnd
        /\ (obs.hadRecord /\ ~IsMenuTrigger(obs.msg, obs.reads)) =>
               obs.calls[1] = [fn |-> "CallWindowProcW",
                               proc |-> g_qtContextHash[obs.hWnd].originalWindowProc,
                               msg |-> obs.msg]
    /\ (/\ obs.op = "TrackPopupMenu" \/ (obs.op = "showSystemMenu_sys" /\ ~obs.reads.hMenu)
        /\ obs.caller = "SystemMenuHookWindowProc") =>
        /\ obs.ret = 0
        /\ \A c \in Range(obs.calls) : c.fn # "CallWindowProcW"

\* Alt+Space for a hooked window: the hook procedure called showSystemMenu_sys.
C5_Witness ==
    /\ obs.op = "SystemMenuHookWindowProc"
    /\ obs.hadRecord
    /\ obs.msg.uMsg = "WM_SYSKEYDOWN" /\ obs.msg.wParam = VK_SPACE /\ obs.reads.altDown
    /\ obs.calls[1].fn = "showSystemMenu_sys"

\* The step taken took the hook off a window right after the step that
\* called install for it.
UndoesInstall(o) ==
    /\ o.op \in {"winIdChanged", "~QtWindowContext"}
    /\ o.undoes.of # NoWinId

\* The round trip to the procedure `expected` of the install undone: after the
\* uninstall the window's procedure is that one and the table has no record
\* for the window; a message delivered to the window next is handled by that
\* procedure, not by the hook procedure.
RoundTrip(expected(_)) ==
    /\ UndoesInstall(obs') =>
        /\ wndProc'[obs'.undoes.of] = expected(obs'.undoes)
        /\ obs'.undoes.of \notin DOMAIN g_qtContextHash'
    /\ (/\ UndoesInstall(obs)
        /\ obs'.op \in {"WindowMessage", "SystemMenuHookWindowProc"}
        /\ obs'.via = "GWLP_WNDPROC"
        /\ obs'.hWnd = obs.undoes.of) =>
        /\ obs'.op = "WindowMessage"
        /\ obs'.calls[1].proc = expected(obs.undoes)
        /\ expected(obs.undoes) # HookProc

\* The procedure the window had when install was called.
CurrentBeforeInstall(u) == u.procBefore

\* The procedure captured by the first registration: the one the window had
\* when install was called if it had no record then, the one in its record
\* otherwise.
FirstOriginal(u) == IF u.had THEN u.recorded ELSE u.procBefore

\* C3 as stated: after install(w, ctx) followed by uninstall(w) the window's
\* procedure is the one that was current before install, the table has no
\* record for w, and messages for w reach that procedure and not the hook.
C3_AsStated == [][RoundTrip(CurrentBeforeInstall)]_vars

\* C3, amended: after install(w, ctx) followed by uninstall(w) the window's
\* procedure is the original procedure of the first registration (the one
\* current before install when w had no record, the one recorded for w when
\* it had), the table has no record for w, and messages for w reach that
\* procedure and not the hook.
C3_InstallUninstallRoundTrip == [][RoundTrip(FirstOriginal)]_vars

\* A window that had no record was hooked and unhooked again.
C3_Witness ==
    /\ UndoesInstall(obs)
    /\ ~obs.undoes.had
    /\ obs.undoes.procBefore = QtWindowProc
    /\ wndProc[obs.undoes.of] = QtWindowProc
    /\ obs.undoes.of \notin DOMAIN g_qtContextHash

\* C4: install(w, ctx2) for a window that has a record leaves the record of w
\* (original procedure and context of the first install) and the procedure of
\* w as they were; when the call does nothing else (the context had no window
\* before), the whole table and all window procedures are unchanged.
C4_InstallIdempotent ==
    [][(obs'.op = "winIdChanged" /\ obs'.had) =>
          LET w == obs'.winId
          IN  /\ w \in DOMAIN g_qtContextHash /\ w \in DOMAIN g_qtContextHash'
              /\ g_qtContextHash'[w] = g_qtContextHash[w]
              /\ wndProc'[w] = wndProc[w]
              /\ obs'.oldWinId = NoWinId =>
                     g_qtContextHash' = g_qtContextHash /\ wndProc' = wndProc]_vars

\* install was called for a window registered by another context.
C4_Witness ==
    /\ obs.op = "winIdChanged"
    /\ obs.had
    /\ g_qtContextHash[obs.winId].context # obs.ctx
    /\ g_qtContextHash[obs.winId].originalWindowProc = QtWindowProc

\* C11: over contexts with windows of their own, after any sequence of
\* winIdChanged notifications and destructions: no record of the hook table
\* refers to a destroyed context, none is left for an identity its context no
\* longer has, and every live context whose window has an identity and had a
\* procedure to capture has exactly one record, under that identity.
RecordsOf(c) == {h \in DOMAIN g_qtContextHash : g_qtContextHash[h].context = c}

C11_HookTableFollowsContexts ==
    /\ \A h \in DOMAIN g_qtContextHash : alive[g_qtContextHash[h].context]
    /\ \A h \in DOMAIN g_qtContextHash : m_windowId[g_qtContextHash[h].context] = h
    /\ \A c \in Ctx :
           (alive[c] /\ m_windowId[c] # NoWinId /\ wndProc[m_windowId[c]] # NullProc)
               => RecordsOf(c) = {m_windowId[c]}

\* A context has moved from one window to another after a context that had a
\* hooked window was destroyed.
C11_Witness ==
    /\ obs.op = "winIdChanged"
    /\ obs.oldWinId # NoWinId /\ obs.winId # NoWinId /\ obs.winId # obs.oldWinId
    /\ \E d \in Ctx : ~alive[d]
    /\ DOMAIN g_qtContextHash = {obs.winId}
    /\ wndProc[obs.oldWinId] = QtWindowProc

------------------------------------------------------------\* C19: in every state reached by winIdChanged notifications and destructions
\* (install and uninstall), nothing else changing a window's procedure: the
\* procedure of a window is SystemMenuHookWindowProc exactly when the table has
\* a record for the window; no record has SystemMenuHookWindowProc or no
\* procedure as its original procedure; and a message the hook procedure
\* forwards with CallWindowProcW goes to a procedure other than itself.
C19_HookProcIffRecord ==
    /\ \A w \in Hwnd : wndProc[w] = HookProc <=> w \in DOMAIN g_qtContextHash
    /\ \A w \in DOMAIN g_qtContextHash :
           g_qtContextHash[w].originalWindowProc \notin {HookProc, NullProc}
    /\ (obs.op = "SystemMenuHookWindowProc" /\ obs.exit = "CallWindowProcW") =>
           /\ Len(obs.calls) = 1
           /\ obs.calls[1].fn = "CallWindowProcW"
           /\ obs.calls[1].proc \notin {HookProc, NullProc}

\* The hook procedure has forwarded a message to the toolkit's procedure, after
\* a context was destroyed, while another window is without hook.
C19_Witness ==
    /\ obs.op = "SystemMenuHookWindowProc"
    /\ obs.exit = "CallWindowProcW"
    /\ obs.calls[1].proc = QtWindowProc
    /\ \E c \in Ctx : ~alive[c]
    /\ \E w \in Hwnd : w \notin DOMAIN g_qtContextHash /\ wndProc[w] = QtWindowProc

\* A call of SystemMenuHookWindowProc that was suspended in showSystemMenu_sys
\* has returned.
HookResumed ==
    /\ obs.op = "TrackPopupMenu" \/ (obs.op = "showSystemMenu_sys" /\ ~obs.reads.hMenu)
    /\ obs.caller = "SystemMenuHookWindowProc"

\* C16: when a call of the hook procedure goes on after its popup menu, whatever
\* was installed, uninstalled or destroyed while the popup was open (the record
\* of its own window included): it reads no record and no context, it returns 0
\* (handled), and the table it leaves has well-formed records, one per window
\* handle at most, none of a destroyed context.
C16_ReentrantDispatchSafe ==
    HookResumed =>
        /\ obs.uses = {}
        /\ obs.ret = 0
        /\ \A h \in DOMAIN g_qtContextHash :
               /\ h \in Hwnd
               /\ g_qtContextHash[h].originalWindowProc # NullProc
               /\ g_qtContextHash[h].context \in Ctx
               /\ alive[g_qtContextHash[h].context]

\* The popup of a hook call has closed after the record of its window was
\* removed and its context destroyed, another window's record being there.
C16_Witness ==
    /\ HookResumed
    /\ obs.op = "TrackPopupMenu"
    /\ obs.call.hWnd \notin DOMAIN g_qtContextHash
    /\ g_qtContextHash # << >>
    /\ \E c \in Ctx : ~alive[c]

----------------
(* Properties of the pointer state machine (Spec). *)

\* The step recorded in o was a call of sharedEventFilter with an event of `type`.
Filtered(o, type) == o.op = "sharedEventFilter" /\ o.ev.type = type

\* A left press in the draggable title area, further than the border
\* thickness from every side of the window.
IsTitlePress(o) ==
    /\ Filtered(o, "MouseButtonPress")
    /\ o.ev.button = "LeftButton"
    /\ o.ev.inTitleBar
    /\ o.ev.pos[1] >= kDefaultResizeBorderThickness
    /\ o.ev.pos[1] < WinW - kDefaultResizeBorderThickness
    /\ o.ev.pos[2] >= kDefaultResizeBorderThickness
    /\ o.ev.pos[2] < WinH - kDefaultResizeBorderThickness

NoMoveStarted(o) == \A c \in Range(o.calls) : c.fn # "startSystemMove"

\* C1: a left press in the title area outside the resize border, in Idle, is
\* swallowed, starts no native move and leaves the state PreparingMove.  A
\* release right after such a press starts no native move either and leaves
\* the state Idle.  A move right after such a press finds PreparingMove, calls
\* startSystemMove (its only call), is swallowed and leaves the state Moving;
\* moves that follow it in Moving call nothing and stay in Moving, and the
\* release in Moving calls nothing and leaves Idle.
C1_TitleClickAndDrag ==
    [][/\ (m_windowStatus = "Idle" /\ IsTitlePress(obs')) =>
              /\ m_windowStatus' = "PreparingMove"
              /\ NoMoveStarted(obs')
              /\ obs'.ret = TRUE
       /\ (IsTitlePress(obs) /\ Filtered(obs', "MouseButtonRelease")) =>
              /\ NoMoveStarted(obs) /\ NoMoveStarted(obs')
              /\ m_windowStatus' = "Idle"
       /\ (IsTitlePress(obs) /\ Filtered(obs', "MouseMove")) =>
              /\ m_windowStatus = "PreparingMove" /\ m_windowStatus' = "Moving"
              /\ obs'.calls = << [fn |-> "startSystemMove"] >>
              /\ obs'.ret = TRUE
       /\ (m_windowStatus = "Moving" /\ Filtered(obs', "MouseMove")) =>
              /\ obs'.calls = <<>>
              /\ m_windowStatus' = "Moving"
       /\ (m_windowStatus = "Moving" /\ Filtered(obs', "MouseButtonRelease")) =>
              /\ obs'.calls = <<>>
              /\ m_windowStatus' = "Idle"]_vars

\* The first move after a press in the title area has started the native move.
C1_Witness ==
    /\ Filtered(obs, "MouseMove")
    /\ obs.calls = << [fn |-> "startSystemMove"] >>
    /\ obs.ret = TRUE
    /\ m_windowStatus = "Moving"

\* C2: for a left double click in the title area: if the host is not
\* fixed-size, the window has the maximize button hint and is not full-screen,
\* setWindowState is called once, with the window state in which only the
\* maximized bit is flipped, and the event is swallowed; otherwise nothing is
\* called and the event is forwarded.  The interaction state stays as it was.
C2_DoubleClickTogglesMaximize ==
    [][(/\ Filtered(obs', "MouseButtonDblClick")
        /\ obs'.ev.button = "LeftButton"
        /\ obs'.ev.inTitleBar) =>
          LET e == obs'.ev
              maxBit == {"WindowMaximized"}
              flipped == (e.windowState \cup maxBit) \ (e.windowState \cap maxBit)
              toggles == ~e.fixedSize /\ e.maximizeHint
                            /\ "WindowFullScreen" \notin e.windowState
          IN  /\ toggles => /\ obs'.calls = << [fn |-> "setWindowState", state |-> flipped] >>
                            /\ obs'.ret = TRUE /\ obs'.accepted
              /\ ~toggles => /\ obs'.calls = <<>>
                             /\ obs'.ret = FALSE /\ ~obs'.accepted
              /\ m_windowStatus' = m_windowStatus]_vars

\* A double click has restored a maximized window, keeping its other state bit.
C2_Witness ==
    /\ Filtered(obs, "MouseButtonDblClick")
    /\ obs.ev.windowState = {"WindowMaximized", "WindowMinimized"}
    /\ obs.calls = << [fn |-> "setWindowState", state |-> {"WindowMinimized"}] >>
    /\ obs.ret = TRUE

\* C9: a release delivered in a state other than Idle leaves the state Idle,
\* whatever its button and position; it is swallowed when the state was
\* PreparingMove, Moving or Resizing and forwarded when it was WaitingRelease.
C9_ReleaseReturnsToIdle ==
    [][(Filtered(obs', "MouseButtonRelease") /\ m_windowStatus # "Idle") =>
          /\ m_windowStatus' = "Idle"
          /\ obs'.ret = (m_windowStatus \in {"PreparingMove", "Moving", "Resizing"})
          /\ obs'.accepted = (m_windowStatus # "WaitingRelease")]_vars

\* A release outside the title area has been swallowed: it ended a move or a
\* resize.
C9_Witness ==
    /\ Filtered(obs, "MouseButtonRelease")
    /\ ~obs.ev.inTitleBar
    /\ obs.ev.button = "RightButton"
    /\ obs.ret = TRUE
    /\ m_windowStatus = "Idle"

\* A release delivered in Idle.
IdleRelease(o) == Filtered(o, "MouseButtonRelease") /\ o.status = "Idle"

\* C12 as stated: a release received in Idle at a position that is not in the
\* draggable title area is swallowed and leaves the state unchanged.
C12_AsStated ==
    [][(IdleRelease(obs') /\ ~obs'.ev.inTitleBar) =>
          /\ obs'.ret = TRUE
          /\ m_windowStatus' = m_windowStatus]_vars

\* C12: a release received in Idle leaves the state Idle and calls nothing on
\* the delegate; at a position that is not in the draggable title area it is
\* forwarded (not accepted, the filter returns false), and at a position in the
\* title area it is swallowed (accepted, the filter returns true).
C12_IdleRelease ==
    [][IdleRelease(obs') =>
          /\ m_windowStatus = "Idle" /\ m_windowStatus' = "Idle"
          /\ obs'.calls = <<>>
          /\ obs'.ret = obs'.ev.inTitleBar
          /\ obs'.accepted = obs'.ev.inTitleBar]_vars

\* A release outside the title area has been forwarded in Idle.
C12_Witness ==
    /\ IdleRelease(obs)
    /\ ~obs.ev.inTitleBar
    /\ obs.ret = FALSE /\ ~obs.accepted
    /\ m_windowStatus = "Idle"

\* The border strips of the event's window that contain the event's position:
\* none unless the window is in the normal windowed state.
StripsOf(e) ==
    LET B == kDefaultResizeBorderThickness
    IN  IF e.window.visibility # "Windowed" THEN {}
        ELSE {s \in {"LeftEdge", "RightEdge", "TopEdge", "BottomEdge"} :
                 \/ s = "LeftEdge" /\ e.pos[1] <= B - 1
                 \/ s = "RightEdge" /\ e.window.width - e.pos[1] <= B
                 \/ s = "TopEdge" /\ e.pos[2] <= B - 1
                 \/ s = "BottomEdge" /\ e.window.height - e.pos[2] <= B}

\* A left press on a border strip of a normally windowed host that is not of
\* fixed size.
IsEdgePress(o) ==
    /\ Filtered(o, "MouseButtonPress")
    /\ o.ev.button = "LeftButton"
    /\ ~o.ev.fixedSize
    /\ StripsOf(o.ev) # {}

ResizeStarted(o) == \E c \in Range(o.calls) : c.fn = "startSystemResize"

\* C13: a step calls startSystemResize exactly when it is the filter's call for
\* a left press, the host not of fixed size, on a border strip of a normally
\* windowed window; the call is then the only one, it has exactly the edges of
\* those strips, the event is swallowed and the state becomes Resizing, also
\* when the position is in the draggable title area.  (So it is never called
\* for a host of fixed size, a maximized, full-screen or minimized window, a
\* position on no strip, or another button.)
C13_ResizeOnEdgePress ==
    [][/\ ResizeStarted(obs') <=> IsEdgePress(obs')
       /\ IsEdgePress(obs') =>
              /\ obs'.calls = << [fn |-> "startSystemResize", edges |-> StripsOf(obs'.ev)] >>
              /\ obs'.ret = TRUE /\ obs'.accepted
              /\ m_windowStatus' = "Resizing"]_vars

\* A left press in the top-left corner, which is also in the title area, has
\* started the resize of the two edges.
C13_Witness ==
    /\ Filtered(obs, "MouseButtonPress")
    /\ obs.ev.inTitleBar
    /\ obs.calls = << [fn |-> "startSystemResize", edges |-> {"LeftEdge", "TopEdge"}] >>
    /\ obs.ret = TRUE
    /\ m_windowStatus = "Resizing"

CursorSet(o) == \E c \in Range(o.calls) : c.fn = "setCursorShape"

CursorRestored(o) == \E c \in Range(o.calls) : c.fn = "restoreCursorShape"

\* C14: m_cursorShapeChanged is true exactly when the last cursor call made on
\* the delegate was setCursorShape, whose shape is never the arrow.  Step by
\* step: the flag starts false, with no cursor call made; a step that calls
\* setCursorShape calls it with a shape other than the arrow and leaves the
\* flag true; a step that calls restoreCursorShape is a move in Idle, the host
\* not of fixed size, the position on no border strip (the arrow), and it finds
\* the flag true and leaves it false; every other step leaves the flag as it
\* was.  (So restoreCursorShape is not called twice without a setCursorShape
\* between the two calls, nor before the first setCursorShape.)
C14_CursorFlag ==
    /\ ~m_cursorShapeChanged
    /\ [][/\ CursorSet(obs') =>
                 /\ Len(obs'.calls) = 1
                 /\ obs'.calls[1].shape # "ArrowCursor"
                 /\ m_cursorShapeChanged'
          /\ CursorRestored(obs') =>
                 /\ obs'.calls = << [fn |-> "restoreCursorShape"] >>
                 /\ Filtered(obs', "MouseMove")
                 /\ obs'.status = "Idle"
                 /\ ~obs'.ev.fixedSize
                 /\ StripsOf(obs'.ev) = {}
                 /\ m_cursorShapeChanged /\ ~m_cursorShapeChanged'
          /\ (~CursorSet(obs') /\ ~CursorRestored(obs')) =>
                 m_cursorShapeChanged' = m_cursorShapeChanged]_vars

\* The cursor has been restored: a move in Idle found the flag set.
C14_Witness ==
    /\ Filtered(obs, "MouseMove")
    /\ obs.cursor
    /\ obs.calls = << [fn |-> "restoreCursorShape"] >>
    /\ ~m_cursorShapeChanged

\* The filter's call for a press that was suspended in showSystemMenu_sys has
\* gone on to its end.
PressResumed(o) ==
    /\ o.op = "TrackPopupMenu" \/ (o.op = "showSystemMenu_sys" /\ ~o.reads.hMenu)
    /\ o.caller = "sharedEventFilter"

\* C17: a press is handled the same way in every state: a left press on a
\* border strip of a normally windowed host not of fixed size leaves Resizing;
\* otherwise a left press in the title area leaves PreparingMove; any other
\* press leaves WaitingRelease (a right press in the title area with a window
\* identity once showSystemMenu_sys has returned, the filter still existing).
\* So when the state was left at Moving or Resizing (no release delivered), a
\* left press in the title area, off the border strips, followed by a move
\* starts a native move: the move calls startSystemMove and leaves Moving.
C17_PressFromEveryState ==
    [][/\ Filtered(obs', "MouseButtonPress") =>
              LET e == obs'.ev
              IN  IF IsEdgePress(obs') THEN m_windowStatus' = "Resizing"
                  ELSE IF e.button = "LeftButton" /\ e.inTitleBar
                      THEN m_windowStatus' = "PreparingMove"
                  ELSE IF MenuCalls(obs') = 0 THEN m_windowStatus' = "WaitingRelease"
                  ELSE popup' # <<>> /\ popup'[Len(popup')].caller = "sharedEventFilter"
       /\ (PressResumed(obs') /\ alive[m_context]) => m_windowStatus' = "WaitingRelease"
       /\ (/\ IsTitlePress(obs)
           /\ obs.status \in {"Moving", "Resizing"}
           /\ Filtered(obs', "MouseMove")) =>
              /\ obs'.calls = << [fn |-> "startSystemMove"] >>
              /\ obs'.ret = TRUE
              /\ m_windowStatus' = "Moving"]_vars

\* A left press in the title area was handled while the state was still
\* Resizing, and has left PreparingMove.
C17_Witness ==
    /\ IsTitlePress(obs)
    /\ obs.status = "Resizing"
    /\ m_windowStatus = "PreparingMove"

----------------------------------------------------------------------------
(* Properties of a right click on the hooked window (SpecClick). *)

\* Both messages of a right click in the draggable title area have been
\* dispatched, and every call they led to has returned.
TitleClickDone == click.stage = "released" /\ click.title /\ Running

\* C15: on a window with the hook on it, a right press in the draggable title
\* area followed by its release at the same position, the release going
\* through the hook procedure first, leaves the state machine in Idle.
C15_RightClickReturnsToIdle == TitleClickDone => m_windowStatus = "Idle"

\* C18: one right click in the draggable title area of a window with the hook
\* on it (the press and its release) calls showSystemMenu_sys at most once.
C18_OneMenuPerClick == click.title => click.menus <= 1

====
